---------------------------- MODULE Spec2Model ----------------------------
(***************************************************************************)
(* Gallery pagination and optimistic reorder controller of Chagai.pro.     *)
(*                                                                         *)
(* The model follows the paginated Gallery component (src/unnamed/part_000)*)
(* and the gateway helpers of lib/firebase (stored in                      *)
(* src/src/components/Toast.tsx from line 56 on).  The category chips that *)
(* call setSelectedCategory are those of src/src/components/Gallery.tsx.   *)
(*                                                                         *)
(* Four specifications are given.  Spec drives pagination, filtering and   *)
(* reordering through the controls the component renders (a control that   *)
(* is not rendered cannot be used).  SpecDirect calls handleLoadMore and    *)
(* handleDragEnd directly, in any state, so that the guards inside the     *)
(* handlers are exercised as well.  SpecAdmin drives the admin controls of *)
(* the cards: selection, inline editing, deletion and the login            *)
(* background, and follows up to two reorders.  SpecFair is pagination and *)
(* filtering under the assumption that the gateway answers every load-more *)
(* fetch.                                                                  *)
(***************************************************************************)
EXTENDS Integers, Sequences, FiniteSets

(***************************************************************************)
(* Bounds of the model.                                                    *)
(***************************************************************************)
\* Largest number of documents in the remote images collection.
MaxImages == 3
\* Page size of the controller (12 in the source, scaled down).
PAGE_SIZE == 2
\* Largest number of reorders that issue write-backs in one behaviour, and
\* the same for a behaviour of SpecAdmin, whose lists are one page long.
MaxReorders == 1
MaxAdminReorders == 2
\* Largest number of update, delete and settings calls in progress at once.
MaxCalls == 1
\* Largest number of reorders and calls started in one behaviour.
MaxMutations == 2
\* Longest raw labels string the parsing is checked on exhaustively.
MaxRawLen == 3

\* The labels arrays a document may hold when the view is opened.
LabelChoices == {<< >>, <<"a">>, <<"b", "a">>}

\* null, as a category, a cursor, an error, a drop destination and a record
\* id; the absence of an alert.
NullCategory == "null"
NoCursor == [id |-> 0, createdAt |-> 0]
NoError == "null"
NoDest == -1
NoImage == 0
NoAlert == "none"
LoadError == "Failed to load images. Please try again later."

VARIABLES
    remote,            \* the documents of the remote images collection
    images,            \* useState: the loaded image list
    loading,           \* useState
    loadingMore,       \* useState
    error,             \* useState
    isAdmin,           \* useState
    selectedCategory,  \* useState
    categories,        \* useState
    lastVisible,       \* useState: the pagination cursor
    hasMore,           \* useState
    adminPc,           \* position of the checkAdmin effect
    fetches,           \* getPaginatedImages calls awaiting their response
    writes,            \* updateDoc position writes awaiting their response
    reorderCount,      \* number of reorders that issued write-backs
    reorderLimit,      \* number of reorders a behaviour is followed for
    overlapped,        \* history: a reorder has issued its write-backs
                       \* while write-backs of an earlier one were in flight
    editingImage,      \* useState: id of the record edited inline
    selectedImages,    \* useState: the selected ids, in insertion order
    isSelectionMode,   \* useState
    ops,               \* update, delete and settings calls in progress
    assets,            \* ids of the records whose stored asset exists
    background,        \* id of the record set as login background
    callCount,         \* number of update, delete and settings calls started
    lastOp,            \* history: the step taken last, with its inputs
    fetchedOnly        \* history: images is what the page fetches of the
                       \* current filter returned, in order, nothing else

vars == <<remote, images, loading, loadingMore, error, isAdmin,
          selectedCategory, categories, lastVisible, hasMore, adminPc,
          fetches, writes, reorderCount, reorderLimit, overlapped,
          editingImage, selectedImages, isSelectionMode, ops, assets,
          background, callCount, lastOp, fetchedOnly>>

\* The state of the card controls, and the remote state besides the images
\* collection.
cardVars == <<editingImage, selectedImages, isSelectionMode, ops>>
reorderVars == <<reorderCount, reorderLimit, overlapped>>
storeVars == <<assets, background>>

Min(a, b) == IF a < b THEN a ELSE b

\* A call in progress: an update, a deletion or a settings write that has
\* been started and awaits the gateway.
Call(kind) ==
    [kind |-> kind, id |-> NoImage, description |-> "", raw |-> << >>,
     labels |-> << >>, ids |-> << >>, batch |-> << >>, phase |-> "none",
     bulk |-> FALSE]

NoCall == Call("none")

\* A history record: the step, the category and staleness of the fetch it
\* answers, the number of records returned, the kind of drop and (of a
\* drop that was not rejected) its indices, the record the step is about,
\* the record whose selection it toggled, the alert it showed and the call
\* in progress it answered.
Op(name) == [name |-> name, category |-> NullCategory, count |-> 0,
             stale |-> FALSE, drop |-> "none", src |-> NoDest,
             dst |-> NoDest, id |-> NoImage, toggled |-> NoImage,
             alert |-> NoAlert, call |-> NoCall]

\* The kind of drop a drag ends with: outside the list, on the card's own
\* place, or on another place.
DropKind(src, dst) ==
    IF dst = NoDest THEN "outside" ELSE IF dst = src THEN "same" ELSE "moved"

(***************************************************************************)
(* The remote collection gateway.                                          *)
(***************************************************************************)
\* Query order: createdAt descending, ties by document name descending.
Before(d, e) ==
    \/ d.createdAt > e.createdAt
    \/ d.createdAt = e.createdAt /\ d.id > e.id

RECURSIVE SortDesc(_)
SortDesc(S) ==
    IF S = {} THEN << >>
    ELSE LET first == CHOOSE d \in S : \A e \in S \ {d} : Before(d, e)
         IN  <<first>> \o SortDesc(S \ {first})

Contains(labels, c) == \E i \in 1..Len(labels) : labels[i] = c

Snapshot(d) == [id |-> d.id, createdAt |-> d.createdAt]

\* A slip: "more" as soon as the page holds anything.
HasMoreOf_anyReturned(n, pageSize) == n > 0

HasMoreOf(n, pageSize) == n = pageSize

LimitOf(ordered, pageSize) == SubSeq(ordered, 1, Min(pageSize, Len(ordered)))

\* A slip: startAt instead of startAfter (the cursor's document is kept).
StartAfter_inclusive(S, lastVis) ==
    IF lastVis # NoCursor THEN {d \in S : ~Before(d, lastVis)} ELSE S

StartAfter(S, lastVis) ==
    IF lastVis # NoCursor THEN {d \in S : Before(lastVis, d)} ELSE S

getPaginatedImages(pageSize, lastVis, category) ==
    LET matching == IF category # NullCategory
                    THEN {d \in remote : Contains(d.labels, category)}
                    ELSE remote
        docs == LimitOf(SortDesc(StartAfter(matching, lastVis)), pageSize)
        newLastVisible == IF Len(docs) > 0 THEN Snapshot(docs[Len(docs)])
                          ELSE NoCursor
    IN  [images |-> docs,
         lastVisible |-> newLastVisible,
         hasMore |-> HasMoreOf(Len(docs), pageSize)]

(***************************************************************************)
(* Helpers of the component.                                               *)
(***************************************************************************)
RECURSIVE Flatten(_)
Flatten(imgs) ==
    IF imgs = << >> THEN << >>
    ELSE imgs[1].labels \o Flatten(Tail(imgs))

\* Array.from(new Set(s)): the first occurrence of each element, in order.
RECURSIVE Unique(_)
Unique(s) ==
    IF s = << >> THEN << >>
    ELSE LET init == Unique(SubSeq(s, 1, Len(s) - 1))
             last == s[Len(s)]
         IN  IF \E i \in 1..Len(init) : init[i] = last
             THEN init ELSE Append(init, last)

updateCategories(loadedImages) == Unique(Flatten(loadedImages))

RemoveAt(s, i) == SubSeq(s, 1, i - 1) \o SubSeq(s, i + 1, Len(s))
InsertAt(s, i, x) == SubSeq(s, 1, i - 1) \o <<x>> \o SubSeq(s, i, Len(s))

\* What the component renders (the early returns before the grid).
GridRendered == ~loading /\ error = NoError /\ Len(images) > 0

InitialFetch(category) ==
    [kind |-> "initial", cursor |-> NoCursor, category |-> category,
     stale |-> FALSE]

(***************************************************************************)
(* Initial state: the component has mounted, both effects have started.    *)
(***************************************************************************)
\* createdAt by rank: documents are numbered in the order of their creation
\* (only the order of the timestamps is ever used).
Timelines(n) == {[i \in 1..n |-> i]}

Collections ==
    UNION {{ {[id |-> i, createdAt |-> t[i], labels |-> l[i], position |-> 0,
               description |-> ""]
                : i \in 1..n}
             : t \in Timelines(n), l \in [1..n -> LabelChoices]}
           : n \in 0..MaxImages}

Mounted ==
    /\ images = << >>
    /\ loading = TRUE
    /\ loadingMore = FALSE
    /\ error = NoError
    /\ isAdmin = FALSE
    /\ selectedCategory = NullCategory
    /\ categories = << >>
    /\ lastVisible = NoCursor
    /\ hasMore = TRUE
    /\ adminPc = "pending"
    /\ fetches = <<InitialFetch(NullCategory)>>
    /\ editingImage = NoImage
    /\ selectedImages = << >>
    /\ isSelectionMode = FALSE
    /\ ops = {}

Init ==
    /\ remote \in Collections
    /\ assets = {d.id : d \in remote}
    /\ background = NoImage
    /\ callCount = 0
    /\ Mounted
    /\ writes = {}
    /\ reorderCount = 0
    /\ reorderLimit = MaxReorders
    /\ overlapped = FALSE
    /\ lastOp = Op("mount")
    /\ fetchedOnly = FALSE

(***************************************************************************)
(* checkAdmin effect (part_000 lines 28-38).  b is what checkAdminStatus   *)
(* answers for the session's user (FALSE also stands for no user).         *)
(***************************************************************************)
CheckAdminDone(b) ==
    /\ adminPc = "pending"
    /\ adminPc' = "done"
    /\ isAdmin' = b
    /\ lastOp' = Op("checkAdmin")
    /\ UNCHANGED <<cardVars, storeVars,
                   remote, images, loading, loadingMore, error,
                   selectedCategory, categories, lastVisible, hasMore,
                   fetches, writes, reorderVars, callCount, fetchedOnly>>

(***************************************************************************)
(* loadInitialImages (part_000 lines 52-79): the response of the fetch     *)
(* started by the effect arrives.                                          *)
(***************************************************************************)
\* A slip: the first page of the new filter is merged into the old list.
ImagesAfterInitial_merged(prev, result) == prev \o result.images

ImagesAfterInitial(prev, result) == result.images

\* A slip: the catch block discards what was loaded.
ImagesAfterFail_cleared(prev) == << >>

\* Neither catch block touches images (part_000 lines 70-72, 108-109).
ImagesAfterFail(prev) == prev

ErrorAfterInitialFail(prev) == LoadError

LoadInitialOk(k) ==
    /\ k \in 1..Len(fetches)
    /\ fetches[k].kind = "initial"
    /\ LET f == fetches[k]
           result == getPaginatedImages(PAGE_SIZE, NoCursor, f.category)
       IN  /\ images' = ImagesAfterInitial(images, result)
           /\ lastVisible' = result.lastVisible
           /\ hasMore' = result.hasMore
           /\ error' = NoError
           /\ categories' = updateCategories(result.images)
           /\ loading' = FALSE
           /\ fetches' = RemoveAt(fetches, k)
           /\ fetchedOnly' = ~f.stale
           /\ lastOp' = [Op("initialOk") EXCEPT !.category = f.category,
                                                !.count = Len(result.images),
                                                !.stale = f.stale]
    /\ UNCHANGED <<cardVars, storeVars,
                   remote, loadingMore, isAdmin, selectedCategory, adminPc,
                   writes, reorderVars, callCount>>

LoadInitialFail(k) ==
    /\ k \in 1..Len(fetches)
    /\ fetches[k].kind = "initial"
    /\ error' = ErrorAfterInitialFail(error)
    /\ loading' = FALSE
    /\ fetches' = RemoveAt(fetches, k)
    /\ images' = ImagesAfterFail(images)
    /\ lastOp' = [Op("initialFail") EXCEPT !.category = fetches[k].category,
                                           !.stale = fetches[k].stale]
    /\ UNCHANGED <<cardVars, storeVars,
                   remote, loadingMore, isAdmin, selectedCategory,
                   categories, lastVisible, hasMore, adminPc, writes,
                   reorderVars, callCount, fetchedOnly>>

(***************************************************************************)
(* handleLoadMore (part_000 lines 93-113).                                 *)
(***************************************************************************)
\* A slip: the guard forgets hasMore.
LoadMoreBlocked_noHasMore == loadingMore

\* A slip: the guard forgets the fetch in flight.
LoadMoreBlocked_noLoadingMore == ~hasMore

LoadMoreBlocked == ~hasMore \/ loadingMore

HandleLoadMore ==
    IF LoadMoreBlocked
    THEN /\ lastOp' = Op("loadMoreSkip")
         /\ UNCHANGED <<cardVars, storeVars,
                        remote, images, loading, loadingMore, error, isAdmin,
                        selectedCategory, categories, lastVisible, hasMore,
                        adminPc, fetches, writes, reorderVars,
                        callCount, fetchedOnly>>
    ELSE /\ loadingMore' = TRUE
         /\ fetches' = Append(fetches, [kind |-> "more",
                                        cursor |-> lastVisible,
                                        category |-> selectedCategory,
                                        stale |-> FALSE])
         /\ lastOp' = [Op("loadMore") EXCEPT !.category = selectedCategory]
         /\ UNCHANGED <<cardVars, storeVars,
                        remote, images, loading, error, isAdmin,
                        selectedCategory, categories, lastVisible, hasMore,
                        adminPc, writes, reorderVars, callCount, fetchedOnly>>

ImagesAfterMore(prev, result) == prev \o result.images

ErrorAfterMoreFail(prev) == prev

\* A slip: the labels of the new page replace the list.
CategoriesAfterMore_replaced(prev, newImages) == updateCategories(newImages)

\* setCategories(prev => Array.from(new Set([...prev, ...newLabels]))).
CategoriesAfterMore(prev, newImages) == Unique(prev \o Flatten(newImages))

LoadMoreOk(k) ==
    /\ k \in 1..Len(fetches)
    /\ fetches[k].kind = "more"
    /\ LET f == fetches[k]
           result == getPaginatedImages(PAGE_SIZE, f.cursor, f.category)
       IN  /\ images' = ImagesAfterMore(images, result)
           /\ lastVisible' = result.lastVisible
           /\ hasMore' = result.hasMore
           /\ categories' = CategoriesAfterMore(categories, result.images)
           /\ loadingMore' = FALSE
           /\ fetches' = RemoveAt(fetches, k)
           /\ fetchedOnly' = (fetchedOnly /\ ~f.stale)
           /\ lastOp' = [Op("moreOk") EXCEPT !.category = f.category,
                                             !.count = Len(result.images),
                                             !.stale = f.stale]
    /\ UNCHANGED <<cardVars, storeVars,
                   remote, loading, error, isAdmin, selectedCategory, adminPc,
                   writes, reorderVars, callCount>>

LoadMoreFail(k) ==
    /\ k \in 1..Len(fetches)
    /\ fetches[k].kind = "more"
    /\ error' = ErrorAfterMoreFail(error)
    /\ loadingMore' = FALSE
    /\ fetches' = RemoveAt(fetches, k)
    /\ images' = ImagesAfterFail(images)
    /\ lastOp' = [Op("moreFail") EXCEPT !.category = fetches[k].category,
                                        !.stale = fetches[k].stale]
    /\ UNCHANGED <<cardVars, storeVars,
                   remote, loading, isAdmin, selectedCategory,
                   categories, lastVisible, hasMore, adminPc, writes,
                   reorderVars, callCount, fetchedOnly>>

(***************************************************************************)
(* setSelectedCategory followed by the effect on [selectedCategory]        *)
(* (part_000 lines 21, 52-54, 79): the fetches already in flight are       *)
(* neither aborted nor marked by the code; the model marks them stale.     *)
(***************************************************************************)
MarkStale(fs) == [i \in 1..Len(fs) |-> [fs[i] EXCEPT !.stale = TRUE]]

SelectCategory(c) ==
    /\ c # selectedCategory
    /\ selectedCategory' = c
    /\ loading' = TRUE
    /\ fetches' = Append(MarkStale(fetches), InitialFetch(c))
    /\ fetchedOnly' = FALSE
    /\ lastOp' = [Op("selectCategory") EXCEPT !.category = c]
    /\ UNCHANGED <<cardVars, storeVars,
                   remote, images, loadingMore, error, isAdmin, categories,
                   lastVisible, hasMore, adminPc, writes, reorderVars,
                   callCount>>

(***************************************************************************)
(* handleDragEnd (part_000 lines 115-140).  src and dst are the zero-based *)
(* indices the drag-and-drop library reports; dst = NoDest is a drop       *)
(* outside the list (result.destination is null).                          *)
(***************************************************************************)
\* A slip: the guard forgets the admin check.
DragRejected_noAdminCheck(dst) == dst = NoDest

DragRejected(dst) == dst = NoDest \/ ~isAdmin

\* A slip: the two cards change places.
Reordered_swapped(imgs, src, dst) ==
    [i \in 1..Len(imgs) |->
        IF i = src + 1 THEN imgs[dst + 1]
        ELSE IF i = dst + 1 THEN imgs[src + 1] ELSE imgs[i]]

\* reorderedImages after the two splice calls.
Reordered(imgs, src, dst) ==
    InsertAt(RemoveAt(imgs, src + 1), dst + 1, imgs[src + 1])

\* A slip: positions numbered from one.
Renumbered_oneBased(imgs) ==
    [i \in 1..Len(imgs) |-> [imgs[i] EXCEPT !.position = i]]

\* updatedImages: every record renumbered with its zero-based index.
Renumbered(imgs) ==
    [i \in 1..Len(imgs) |-> [imgs[i] EXCEPT !.position = i - 1]]

\* One updateDoc per record of updatedImages, all issued before the await.
PositionWrites(imgs, batch) ==
    {[id |-> imgs[i].id, position |-> imgs[i].position, batch |-> batch]
        : i \in 1..Len(imgs)}

\* A slip: the list is left alone until the writes are confirmed.
ImagesAfterDrop_deferred(prev, updatedImages) == prev

\* setImages(updatedImages), before the writes are created.
ImagesAfterDrop(prev, updatedImages) == updatedImages

HandleDragEnd(src, dst) ==
    /\ src \in 0..(Len(images) - 1)
    /\ dst \in {NoDest} \cup 0..(Len(images) - 1)
    /\ lastOp' = [Op("handleDragEnd") EXCEPT
                     !.drop = DropKind(src, dst),
                     !.src = IF DragRejected(dst) THEN NoDest ELSE src,
                     !.dst = IF DragRejected(dst) THEN NoDest ELSE dst]
    /\ IF DragRejected(dst)
       THEN UNCHANGED <<cardVars, storeVars,
                        remote, images, loading, loadingMore, error, isAdmin,
                        selectedCategory, categories, lastVisible, hasMore,
                        adminPc, fetches, writes, reorderVars,
                        callCount, fetchedOnly>>
       ELSE /\ reorderCount < reorderLimit
            /\ callCount + reorderCount < MaxMutations
            /\ LET updatedImages == Renumbered(Reordered(images, src, dst))
               IN  /\ images' = ImagesAfterDrop(images, updatedImages)
                   /\ writes' = writes \cup
                                  PositionWrites(updatedImages, reorderCount)
            /\ reorderCount' = reorderCount + 1
            /\ reorderLimit' = reorderLimit
            /\ overlapped' = (overlapped \/ writes # {})
            /\ callCount' = callCount
            /\ fetchedOnly' = FALSE
            /\ UNCHANGED <<cardVars, storeVars,
                           remote, loading, loadingMore, error, isAdmin,
                           selectedCategory, categories, lastVisible, hasMore,
                           adminPc, fetches>>

(***************************************************************************)
(* window.location.reload() (part_000 lines 138 and 253): the page is      *)
(* loaded again and the component mounts afresh.  Responses of the fetches *)
(* of the old page are lost, its calls in progress stop, and so do its     *)
(* writes that are still in flight (a write the gateway applies although   *)
(* the page has gone is a WriteOk step taken before the reload).           *)
(***************************************************************************)
Reload ==
    /\ images' = << >>
    /\ loading' = TRUE
    /\ loadingMore' = FALSE
    /\ error' = NoError
    /\ isAdmin' = FALSE
    /\ selectedCategory' = NullCategory
    /\ categories' = << >>
    /\ lastVisible' = NoCursor
    /\ hasMore' = TRUE
    /\ adminPc' = "pending"
    /\ fetches' = <<InitialFetch(NullCategory)>>
    /\ writes' = {}
    /\ editingImage' = NoImage
    /\ selectedImages' = << >>
    /\ isSelectionMode' = FALSE
    /\ ops' = {}
    /\ fetchedOnly' = FALSE

Retry ==
    /\ Reload
    /\ lastOp' = Op("retry")
    /\ UNCHANGED <<remote, reorderVars, callCount, storeVars>>

(***************************************************************************)
(* The gateway answers one updateDoc of a reorder (part_000 lines          *)
(* 131-139).  Promise.all rejects on the first write that fails, and the   *)
(* catch block reloads the page.                                           *)
(***************************************************************************)
\* A slip: the write makes room, moving on every other document that holds
\* the position.
WithPosition_shifting(docs, id, position) ==
    {IF d.id = id THEN [d EXCEPT !.position = position]
     ELSE IF d.position = position THEN [d EXCEPT !.position = position + 1]
     ELSE d : d \in docs}

\* updateDoc(doc(db, 'images', id), { position }): a point update.
WithPosition(docs, id, position) ==
    {IF d.id = id THEN [d EXCEPT !.position = position] ELSE d : d \in docs}

WriteOk(w) ==
    /\ w \in writes
    /\ \E d \in remote : d.id = w.id
    /\ remote' = WithPosition(remote, w.id, w.position)
    /\ writes' = writes \ {w}
    /\ lastOp' = Op("writeOk")
    /\ UNCHANGED <<cardVars, storeVars,
                   images, loading, loadingMore, error, isAdmin,
                   selectedCategory, categories, lastVisible, hasMore,
                   adminPc, fetches, reorderVars, callCount, fetchedOnly>>

\* A slip: the failure is only logged.
WriteFail_logged(w) ==
    /\ w \in writes
    /\ writes' = writes \ {w}
    /\ lastOp' = Op("writeFail")
    /\ UNCHANGED <<cardVars, storeVars, remote, images, loading, loadingMore,
                   error, isAdmin, selectedCategory, categories, lastVisible,
                   hasMore, adminPc, fetches, reorderVars, callCount,
                   fetchedOnly>>

WriteFail(w) ==
    /\ w \in writes
    /\ lastOp' = Op("writeFail")
    /\ Reload
    /\ UNCHANGED <<remote, reorderVars, callCount, storeVars>>

(***************************************************************************)
(* The labels field of the inline editor (part_000 line 144).  A raw       *)
(* string is a sequence of characters; a label is the text of its          *)
(* characters.                                                             *)
(***************************************************************************)
\* raw.split(sep): the pieces between the separators, empty ones included.
RECURSIVE Split(_, _)
Split(raw, sep) ==
    IF \A i \in 1..Len(raw) : raw[i] # sep THEN <<raw>>
    ELSE LET k == CHOOSE i \in 1..Len(raw) :
                    raw[i] = sep /\ \A j \in 1..(i - 1) : raw[j] # sep
         IN  <<SubSeq(raw, 1, k - 1)>>
                 \o Split(SubSeq(raw, k + 1, Len(raw)), sep)

\* piece.trim(): the blanks at both ends are removed.
RECURSIVE Trim(_)
Trim(piece) ==
    IF piece = << >> THEN piece
    ELSE IF Head(piece) = " " THEN Trim(Tail(piece))
    ELSE IF piece[Len(piece)] = " "
         THEN Trim(SubSeq(piece, 1, Len(piece) - 1))
    ELSE piece

RECURSIVE Text(_)
Text(chars) == IF chars = << >> THEN "" ELSE Head(chars) \o Text(Tail(chars))

\* labels.split(',').map(label => label.trim()), as character sequences.
TrimmedPieces(raw) ==
    LET pieces == Split(raw, ",")
    IN  [i \in 1..Len(pieces) |-> Trim(pieces[i])]

NonEmpty(piece) == piece # << >>

LabelsOf(pieces) == [i \in 1..Len(pieces) |-> Text(pieces[i])]

\* A slip: the labels are deduplicated.
ParseLabels_deduplicated(raw) ==
    Unique(LabelsOf(SelectSeq(TrimmedPieces(raw), NonEmpty)))

\* updatedLabels: .filter(Boolean) drops the empty strings.
ParseLabels(raw) == LabelsOf(SelectSeq(TrimmedPieces(raw), NonEmpty))

\* "a, b ,  , b"
ExampleRaw == <<"a", ",", " ", "b", " ", ",", " ", " ", ",", " ", "b">>

\* What the admin types into the labels field, and into the description.
RawInputs == {ExampleRaw, <<" ", ",">>}
Descriptions == {"d"}

Member(s, x) == \E i \in 1..Len(s) : s[i] = x

Without(s, x) == SelectSeq(s, LAMBDA y : y # x)

Ids(imgs) == {imgs[i].id : i \in 1..Len(imgs)}

UpdateAlert == "Failed to update image. Please try again."
DeleteAlert == "Failed to delete image. Please try again."
BulkDeleteAlert == "Failed to delete images. Please try again."
BackgroundAlert == "Failed to update background. Please try again."
BackgroundDoneAlert == "Login background updated successfully"

\* A slip: the admin controls are rendered for every visitor.
AdminControlsRendered_forAll == GridRendered

\* The controls inside {isAdmin && (...)} (part_000 lines 274, 344).
AdminControlsRendered == GridRendered /\ isAdmin

(***************************************************************************)
(* toggleImageSelection (part_000 lines 217-233).                          *)
(***************************************************************************)
Toggled(selection, id) ==
    IF Member(selection, id) THEN Without(selection, id)
    ELSE Append(selection, id)

\* A slip: selection mode is never left.
ModeAfterToggle_neverLeft(selection, id) == TRUE

\* setIsSelectionMode(true), then setIsSelectionMode(false) from the
\* updater when the last id has been removed.
ModeAfterToggle(selection, id) ==
    ~(Member(selection, id) /\ Without(selection, id) = << >>)

toggleImageSelection(id) ==
    IF ~isAdmin
    THEN UNCHANGED <<selectedImages, isSelectionMode>>
    ELSE /\ selectedImages' = Toggled(selectedImages, id)
         /\ isSelectionMode' = ModeAfterToggle(selectedImages, id)

\* A click or Enter/space on a card: the handlers are attached for an
\* admin only (part_000 lines 306-319).
ClickCard(id) ==
    /\ GridRendered /\ isAdmin
    /\ id \in Ids(images)
    /\ toggleImageSelection(id)
    /\ lastOp' = [Op("toggle") EXCEPT !.id = id, !.toggled = id]
    /\ UNCHANGED <<remote, images, loading, loadingMore, error, isAdmin,
                   selectedCategory, categories, lastVisible, hasMore,
                   adminPc, fetches, writes, reorderVars,
                   callCount, editingImage, ops,
                   storeVars, fetchedOnly>>

(***************************************************************************)
(* Inline editing (part_000 lines 142-158, 360-370, 401-438).  The pencil  *)
(* button stops the propagation of its click; the Cancel and Save buttons  *)
(* of the form do not, so their click also reaches the card's handler.     *)
(***************************************************************************)
ClickEdit(id) ==
    /\ AdminControlsRendered
    /\ id \in Ids(images)
    /\ editingImage' = id
    /\ lastOp' = [Op("edit") EXCEPT !.id = id]
    /\ UNCHANGED <<remote, images, loading, loadingMore, error, isAdmin,
                   selectedCategory, categories, lastVisible, hasMore,
                   adminPc, fetches, writes, reorderVars,
                   callCount, selectedImages,
                   isSelectionMode, ops, storeVars, fetchedOnly>>

EditFormRendered(id) ==
    GridRendered /\ id \in Ids(images) /\ editingImage = id

ClickCancelEdit(id) ==
    /\ EditFormRendered(id)
    /\ editingImage' = NoImage
    /\ toggleImageSelection(id)
    /\ lastOp' = [Op("cancelEdit") EXCEPT
                     !.id = id, !.toggled = IF isAdmin THEN id ELSE NoImage]
    /\ UNCHANGED <<remote, images, loading, loadingMore, error, isAdmin,
                   selectedCategory, categories, lastVisible, hasMore,
                   adminPc, fetches, writes, reorderVars,
                   callCount, ops, storeVars,
                   fetchedOnly>>

\* handleUpdate up to its await.
HandleUpdate(id, description, raw) ==
    /\ Cardinality(ops) < MaxCalls
    /\ callCount + reorderCount < MaxMutations
    /\ callCount' = callCount + 1
    /\ ops' = ops \cup {[Call("update") EXCEPT
                            !.id = id, !.description = description,
                            !.raw = raw, !.labels = ParseLabels(raw)]}

ClickSave(id, description, raw) ==
    /\ EditFormRendered(id)
    /\ HandleUpdate(id, description, raw)
    /\ toggleImageSelection(id)
    /\ lastOp' = [Op("handleUpdate") EXCEPT
                     !.id = id, !.toggled = IF isAdmin THEN id ELSE NoImage]
    /\ UNCHANGED <<remote, images, loading, loadingMore, error, isAdmin,
                   selectedCategory, categories, lastVisible, hasMore,
                   adminPc, fetches, writes, reorderVars, editingImage,
                   storeVars, fetchedOnly>>

\* updateDoc(doc(db, 'images', imageId), metadata) (Toast.tsx line 332).
WithMetadata(docs, id, description, labels) ==
    {IF d.id = id
     THEN [d EXCEPT !.description = description, !.labels = labels]
     ELSE d : d \in docs}

\* A slip: every loaded record takes the new values.
ImagesAfterUpdate_all(prev, o) ==
    [i \in 1..Len(prev) |->
        [prev[i] EXCEPT !.description = o.description, !.labels = o.labels]]

\* prevImages.map(img => img.id === imageId ? {...} : img)
ImagesAfterUpdate(prev, o) ==
    [i \in 1..Len(prev) |->
        IF prev[i].id = o.id
        THEN [prev[i] EXCEPT !.description = o.description,
                             !.labels = o.labels]
        ELSE prev[i]]

\* updateDoc succeeds only for a document that exists.
UpdateOk(o) ==
    /\ o \in ops /\ o.kind = "update"
    /\ \E d \in remote : d.id = o.id
    /\ remote' = WithMetadata(remote, o.id, o.description, o.labels)
    /\ images' = ImagesAfterUpdate(images, o)
    /\ editingImage' = NoImage
    /\ ops' = ops \ {o}
    /\ lastOp' = [Op("updateOk") EXCEPT !.id = o.id, !.call = o]
    /\ UNCHANGED <<loading, loadingMore, error, isAdmin, selectedCategory,
                   categories, lastVisible, hasMore, adminPc, fetches, writes,
                   reorderVars,
                   callCount, selectedImages, isSelectionMode, storeVars,
                   fetchedOnly>>

UpdateFail(o) ==
    /\ o \in ops /\ o.kind = "update"
    /\ ops' = ops \ {o}
    /\ lastOp' = [Op("updateFail") EXCEPT !.id = o.id, !.call = o,
                                          !.alert = UpdateAlert]
    /\ UNCHANGED <<remote, images, loading, loadingMore, error, isAdmin,
                   selectedCategory, categories, lastVisible, hasMore,
                   adminPc, fetches, writes, reorderVars,
                   callCount, editingImage,
                   selectedImages, isSelectionMode, storeVars, fetchedOnly>>

(***************************************************************************)
(* handleSetAsBackground (part_000 lines 160-170) and updateSiteSettings   *)
(* (Toast.tsx lines 357-380), taken as one write of the settings document. *)
(***************************************************************************)
ClickSetAsBackground(id) ==
    /\ AdminControlsRendered
    /\ id \in Ids(images)
    /\ Cardinality(ops) < MaxCalls
    /\ callCount + reorderCount < MaxMutations
    /\ callCount' = callCount + 1
    /\ ops' = ops \cup {[Call("background") EXCEPT !.id = id]}
    /\ lastOp' = [Op("handleSetAsBackground") EXCEPT !.id = id]
    /\ UNCHANGED <<remote, images, loading, loadingMore, error, isAdmin,
                   selectedCategory, categories, lastVisible, hasMore,
                   adminPc, fetches, writes, reorderVars, editingImage,
                   selectedImages, isSelectionMode, storeVars, fetchedOnly>>

BackgroundOk(o) ==
    /\ o \in ops /\ o.kind = "background"
    /\ background' = o.id
    /\ ops' = ops \ {o}
    /\ lastOp' = [Op("backgroundOk") EXCEPT !.id = o.id, !.call = o,
                                            !.alert = BackgroundDoneAlert]
    /\ UNCHANGED <<remote, images, loading, loadingMore, error, isAdmin,
                   selectedCategory, categories, lastVisible, hasMore,
                   adminPc, fetches, writes, reorderVars,
                   callCount, editingImage,
                   selectedImages, isSelectionMode, assets, fetchedOnly>>

BackgroundFail(o) ==
    /\ o \in ops /\ o.kind = "background"
    /\ ops' = ops \ {o}
    /\ lastOp' = [Op("backgroundFail") EXCEPT !.id = o.id, !.call = o,
                                              !.alert = BackgroundAlert]
    /\ UNCHANGED <<remote, images, loading, loadingMore, error, isAdmin,
                   selectedCategory, categories, lastVisible, hasMore,
                   adminPc, fetches, writes, reorderVars,
                   callCount, editingImage,
                   selectedImages, isSelectionMode, storeVars, fetchedOnly>>

(***************************************************************************)
(* handleDelete and handleBulkDelete (part_000 lines 172-202) up to their  *)
(* await.  confirmed is the answer to the confirm() dialog.                *)
(***************************************************************************)
DeleteCall(ids, bulk) ==
    [Call("delete") EXCEPT !.ids = ids, !.batch = ids, !.phase = "read",
                           !.bulk = bulk]

HandleDelete(id, confirmed) ==
    IF ~confirmed
    THEN /\ lastOp' = [Op("deleteCancel") EXCEPT !.id = id]
         /\ UNCHANGED <<ops, callCount>>
    ELSE /\ Cardinality(ops) < MaxCalls
         /\ callCount + reorderCount < MaxMutations
         /\ callCount' = callCount + 1
         /\ ops' = ops \cup {DeleteCall(<<id>>, FALSE)}
         /\ lastOp' = [Op("handleDelete") EXCEPT !.id = id]

ClickDelete(id, confirmed) ==
    /\ AdminControlsRendered
    /\ id \in Ids(images)
    /\ HandleDelete(id, confirmed)
    /\ UNCHANGED <<remote, images, loading, loadingMore, error, isAdmin,
                   selectedCategory, categories, lastVisible, hasMore,
                   adminPc, fetches, writes, reorderVars, editingImage,
                   selectedImages, isSelectionMode, storeVars, fetchedOnly>>

HandleBulkDelete(confirmed) ==
    IF selectedImages = << >>
    THEN /\ lastOp' = Op("bulkDeleteSkip")
         /\ UNCHANGED <<ops, callCount>>
    ELSE IF ~confirmed
    THEN /\ lastOp' = Op("bulkDeleteCancel")
         /\ UNCHANGED <<ops, callCount>>
    ELSE /\ Cardinality(ops) < MaxCalls
         /\ callCount + reorderCount < MaxMutations
         /\ callCount' = callCount + 1
         /\ ops' = ops \cup {DeleteCall(selectedImages, TRUE)}
         /\ lastOp' = Op("handleBulkDelete")

\* The Delete Selected button (part_000 lines 274-283).
ClickBulkDelete(confirmed) ==
    /\ AdminControlsRendered
    /\ Len(selectedImages) > 0
    /\ HandleBulkDelete(confirmed)
    /\ UNCHANGED <<remote, images, loading, loadingMore, error, isAdmin,
                   selectedCategory, categories, lastVisible, hasMore,
                   adminPc, fetches, writes, reorderVars, editingImage,
                   selectedImages, isSelectionMode, storeVars, fetchedOnly>>

(***************************************************************************)
(* deleteImages (Toast.tsx lines 338-355): for each id in turn getDoc,     *)
(* deleteObject, deleteDoc; the first step that fails ends the call.  The  *)
(* continuation of the handler runs with the step that ends the loop.      *)
(***************************************************************************)
\* A slip: the catch block removes the batch from the list all the same.
ImagesAfterDeleteFail_removed(prev, o) ==
    SelectSeq(prev, LAMBDA img : ~Member(o.batch, img.id))

\* Neither catch block touches images (part_000 lines 180-183, 198-201).
ImagesAfterDeleteFail(prev, o) == prev

\* A slip: only the ids that were found remotely are removed.
ImagesAfterDelete_foundOnly(prev, o, docs) ==
    SelectSeq(prev, LAMBDA img :
        ~(Member(o.batch, img.id) /\ \E d \in docs : d.id = img.id))

\* prevImages.filter(img => img.id !== imageId), and its bulk variant.
ImagesAfterDelete(prev, o, docs) ==
    SelectSeq(prev, LAMBDA img : ~Member(o.batch, img.id))

\* The id in hand has been dealt with: go on with the next one, or return
\* to the handler when the batch is exhausted.
Advance(o, docs) ==
    IF Len(o.ids) > 1
    THEN /\ ops' = (ops \ {o}) \cup
                     {[o EXCEPT !.ids = Tail(o.ids), !.phase = "read"]}
         /\ UNCHANGED <<images, selectedImages, isSelectionMode>>
    ELSE /\ ops' = ops \ {o}
         /\ images' = ImagesAfterDelete(images, o, docs)
         /\ IF o.bulk
            THEN /\ selectedImages' = << >>
                 /\ isSelectionMode' = FALSE
            ELSE UNCHANGED <<selectedImages, isSelectionMode>>

\* A slip: the document is deleted before the asset.
PhaseAfterRead_documentFirst == "doc"

\* After getDoc has found the document, deleteObject is awaited next.
PhaseAfterRead == "asset"

\* getDoc answers; a document that does not exist is skipped.
DeleteRead(o) ==
    /\ o \in ops /\ o.kind = "delete" /\ o.phase = "read"
    /\ IF \E d \in remote : d.id = Head(o.ids)
       THEN /\ ops' = (ops \ {o}) \cup {[o EXCEPT !.phase = PhaseAfterRead]}
            /\ lastOp' = [Op("deleteRead") EXCEPT !.id = Head(o.ids),
                                                  !.call = o]
            /\ UNCHANGED <<images, selectedImages, isSelectionMode>>
       ELSE /\ Advance(o, remote)
            /\ lastOp' = [Op("deleteSkip") EXCEPT !.id = Head(o.ids),
                                                  !.call = o]
    /\ UNCHANGED <<remote, loading, loadingMore, error, isAdmin,
                   selectedCategory, categories, lastVisible, hasMore,
                   adminPc, fetches, writes, reorderVars,
                   callCount, editingImage,
                   storeVars, fetchedOnly>>

\* deleteObject succeeds only for an asset that exists.
DeleteAsset(o) ==
    /\ o \in ops /\ o.kind = "delete" /\ o.phase = "asset"
    /\ Head(o.ids) \in assets
    /\ assets' = assets \ {Head(o.ids)}
    /\ ops' = (ops \ {o}) \cup {[o EXCEPT !.phase = "doc"]}
    /\ lastOp' = [Op("deleteAsset") EXCEPT !.id = Head(o.ids), !.call = o]
    /\ UNCHANGED <<remote, images, loading, loadingMore, error, isAdmin,
                   selectedCategory, categories, lastVisible, hasMore,
                   adminPc, fetches, writes, reorderVars,
                   callCount, editingImage,
                   selectedImages, isSelectionMode, background, fetchedOnly>>

DeleteDoc(o) ==
    /\ o \in ops /\ o.kind = "delete" /\ o.phase = "doc"
    /\ remote' = {d \in remote : d.id # Head(o.ids)}
    /\ Advance(o, remote')
    /\ lastOp' = [Op("deleteDoc") EXCEPT !.id = Head(o.ids), !.call = o]
    /\ UNCHANGED <<loading, loadingMore, error, isAdmin, selectedCategory,
                   categories, lastVisible, hasMore, adminPc, fetches, writes,
                   reorderVars,
                   callCount, editingImage, storeVars, fetchedOnly>>

\* The step in hand (read, asset or document) fails: deleteImages throws
\* and the catch block of the handler alerts.
DeleteFail(o) ==
    /\ o \in ops /\ o.kind = "delete"
    /\ ops' = ops \ {o}
    /\ images' = ImagesAfterDeleteFail(images, o)
    /\ lastOp' = [Op("deleteFail") EXCEPT
                     !.id = Head(o.ids), !.call = o,
                     !.alert = IF o.bulk THEN BulkDeleteAlert
                               ELSE DeleteAlert]
    /\ UNCHANGED <<remote, loading, loadingMore, error, isAdmin,
                   selectedCategory, categories, lastVisible, hasMore,
                   adminPc, fetches, writes, reorderVars,
                   callCount, editingImage,
                   selectedImages, isSelectionMode, storeVars, fetchedOnly>>

(***************************************************************************)
(* Steps of the gateway and of the effects, common to all specifications.  *)
(***************************************************************************)
Responses ==
    \/ \E b \in BOOLEAN : CheckAdminDone(b)
    \/ \E k \in 1..Len(fetches) : LoadInitialOk(k)
    \/ \E k \in 1..Len(fetches) : LoadInitialFail(k)
    \/ \E k \in 1..Len(fetches) : LoadMoreOk(k)
    \/ \E k \in 1..Len(fetches) : LoadMoreFail(k)
    \/ \E w \in writes : WriteOk(w)
    \/ \E w \in writes : WriteFail(w)

(***************************************************************************)
(* Spec: the user acts through the controls the component renders.         *)
(***************************************************************************)
\* The Load More button (part_000 lines 475-483).
ClickLoadMore ==
    /\ GridRendered /\ ~loadingMore /\ hasMore
    /\ HandleLoadMore

\* A drag of a card: isDragDisabled={!isAdmin} (part_000 lines 285-298).
DropCard ==
    /\ GridRendered /\ isAdmin
    /\ \E src \in 0..(Len(images) - 1) :
         \E dst \in {NoDest} \cup 0..(Len(images) - 1) :
           HandleDragEnd(src, dst)

\* The category chips (Gallery.tsx lines 234-260).
ClickCategory ==
    /\ GridRendered /\ Len(categories) > 0
    /\ \E c \in {NullCategory} \cup {categories[i] : i \in 1..Len(categories)} :
         SelectCategory(c)

\* The Retry button of the error view (part_000 lines 248-259).
ClickRetry ==
    /\ ~loading /\ error # NoError
    /\ Retry

Next ==
    \/ Responses
    \/ ClickLoadMore
    \/ DropCard
    \/ ClickCategory
    \/ ClickRetry

Spec == Init /\ [][Next]_vars

(***************************************************************************)
(* SpecDirect: handleLoadMore and handleDragEnd are called directly, in    *)
(* any state, whatever the component renders (no other control is used).   *)
(***************************************************************************)
CallLoadMore == HandleLoadMore

CallDragEnd ==
    \E src \in 0..(Len(images) - 1) :
      \E dst \in {NoDest} \cup 0..(Len(images) - 1) :
        HandleDragEnd(src, dst)

NextDirect ==
    \/ Responses
    \/ CallLoadMore
    \/ CallDragEnd

SpecDirect == Init /\ [][NextDirect]_vars

(***************************************************************************)
(* SpecFair: pagination and the filter, with handleLoadMore called in any  *)
(* state, under the assumption that the gateway answers every load-more    *)
(* fetch: the promise of getPaginatedImages settles, and the try / catch / *)
(* finally of handleLoadMore then runs to its end.                         *)
(***************************************************************************)
LoadMoreAnswered ==
    \E k \in 1..Len(fetches) : LoadMoreFail(k) \/ LoadMoreOk(k)

NextFair ==
    \/ \E b \in BOOLEAN : CheckAdminDone(b)
    \/ \E k \in 1..Len(fetches) : LoadInitialOk(k)
    \/ \E k \in 1..Len(fetches) : LoadInitialFail(k)
    \/ LoadMoreAnswered
    \/ CallLoadMore
    \/ ClickCategory
    \/ ClickRetry

SpecFair == Init /\ [][NextFair]_vars /\ WF_vars(LoadMoreAnswered)

(***************************************************************************)
(* SpecAdmin: the admin works on the first page with the controls the      *)
(* paginated component renders (it has no category chips): selection,      *)
(* inline editing, deletion, the login background, reordering and Retry.   *)
(* The collection holds up to MaxImages documents with given labels.       *)
(***************************************************************************)
\* The labels of document i when the view is opened.
AdminLabels(i) ==
    IF i = 1 THEN <<"a">> ELSE IF i = 2 THEN <<"b", "a">> ELSE << >>

AdminCollections ==
    {{[id |-> i, createdAt |-> i, labels |-> AdminLabels(i), position |-> 0,
       description |-> ""] : i \in 1..n} : n \in 0..MaxImages}

InitAdmin ==
    /\ remote \in AdminCollections
    /\ assets = {d.id : d \in remote}
    /\ background = NoImage
    /\ callCount = 0
    /\ Mounted
    /\ writes = {}
    /\ reorderCount = 0
    /\ reorderLimit = MaxAdminReorders
    /\ overlapped = FALSE
    /\ lastOp = Op("mount")
    /\ fetchedOnly = FALSE

CardClicks ==
    \E id \in Ids(images) :
        \/ ClickCard(id)
        \/ ClickEdit(id)
        \/ ClickCancelEdit(id)
        \/ \E description \in Descriptions : \E raw \in RawInputs :
              ClickSave(id, description, raw)
        \/ ClickSetAsBackground(id)
        \/ \E confirmed \in BOOLEAN : ClickDelete(id, confirmed)

CallSteps ==
    \E o \in ops :
        \/ UpdateOk(o)
        \/ UpdateFail(o)
        \/ BackgroundOk(o)
        \/ BackgroundFail(o)
        \/ DeleteRead(o)
        \/ DeleteAsset(o)
        \/ DeleteDoc(o)
        \/ DeleteFail(o)

NextAdmin ==
    \/ \E b \in BOOLEAN : CheckAdminDone(b)
    \/ \E k \in 1..Len(fetches) : LoadInitialOk(k)
    \/ \E k \in 1..Len(fetches) : LoadInitialFail(k)
    \/ \E w \in writes : WriteOk(w)
    \/ \E w \in writes : WriteFail(w)
    \/ DropCard
    \/ ClickRetry
    \/ CardClicks
    \/ \E confirmed \in BOOLEAN : ClickBulkDelete(confirmed)
    \/ CallSteps

SpecAdmin == InitAdmin /\ [][NextAdmin]_vars

(***************************************************************************)
(* Properties.                                                             *)
(***************************************************************************)
NoDuplicateIds(imgs) ==
    \A i, j \in 1..Len(imgs) : imgs[i].id = imgs[j].id => i = j

DescendingCreatedAt(imgs) ==
    \A i \in 1..(Len(imgs) - 1) : imgs[i].createdAt >= imgs[i + 1].createdAt

CountMore(fs) == Cardinality({i \in 1..Len(fs) : fs[i].kind = "more"})

\* C1: a successful getPaginatedImages call with page size N returns at
\* most N records, and hasMore is true exactly when it returned N of them
\* and false exactly when it returned fewer; the controller stores that
\* hasMore after an initial load and after a load-more.
C1_HasMoreIffFullPage ==
    /\ \A n \in 1..(MaxImages + 1) : \A cur \in {NoCursor, lastVisible} :
         LET r == getPaginatedImages(n, cur, selectedCategory)
         IN  /\ Len(r.images) <= n
             /\ r.hasMore <=> Len(r.images) = n
             /\ ~r.hasMore <=> Len(r.images) < n
    /\ lastOp.name \in {"initialOk", "moreOk"} =>
         /\ lastOp.count <= PAGE_SIZE
         /\ hasMore <=> lastOp.count = PAGE_SIZE

\* C1 witness: three records, page size two, no filter: the second page
\* has just returned one record and hasMore is false.
C1_Witness ==
    /\ PAGE_SIZE = 2
    /\ Cardinality(remote) = 3
    /\ selectedCategory = NullCategory
    /\ fetchedOnly
    /\ lastOp.name = "moreOk" /\ lastOp.count = 1
    /\ Len(images) = 3
    /\ ~hasMore

\* C2: while the list holds exactly what the initial load and the
\* load-more calls of the current filter returned, it has no two records
\* with the same id and is in descending createdAt order.
C2_NoDuplicatesDescending ==
    fetchedOnly => NoDuplicateIds(images) /\ DescendingCreatedAt(images)

\* C2 witness: a second page has been appended to the first.
C2_Witness ==
    /\ fetchedOnly
    /\ lastOp.name = "moreOk"
    /\ Len(images) > PAGE_SIZE

\* C3: a load-more that returns zero records sets hasMore to false and
\* leaves the list as it was, and while hasMore is false no step issues a
\* load-more fetch.
C3_EmptyPageEndsPagination ==
    [][/\ (lastOp'.name = "moreOk" /\ lastOp'.count = 0) =>
             (~hasMore' /\ images' = images)
       /\ ~hasMore => CountMore(fetches') <= CountMore(fetches)]_vars

\* C3 witness: the collection holds exactly one full page; the extra fetch
\* has returned nothing (the cursor is null again although records are
\* loaded), and handleLoadMore was then called and returned at its guard.
C3_Witness ==
    /\ Cardinality(remote) = PAGE_SIZE
    /\ Len(images) = PAGE_SIZE
    /\ lastVisible = NoCursor
    /\ ~hasMore
    /\ fetches = << >>
    /\ lastOp.name = "loadMoreSkip"

\* C4: the start and the failure of a page fetch (initial or load-more)
\* leave the list, the cursor and hasMore unchanged.
C4_FailedFetchPreservesState ==
    [][lastOp'.name \in {"selectCategory", "loadMore", "initialFail",
                         "moreFail"}
         => UNCHANGED <<images, lastVisible, hasMore>>]_vars

\* C4 witness: the fetch of a filter change has failed and the records and
\* the cursor loaded before are still there.
C4_Witness ==
    /\ lastOp.name = "initialFail"
    /\ Len(images) > 0
    /\ lastVisible # NoCursor

\* C5 (as claimed): after any failed page fetch the error field is
\* non-null.
C5_FailedFetchSetsError ==
    lastOp.name \in {"initialFail", "moreFail"} => error # NoError

\* C6: right after the fetch of a filter change (or of the mount) has
\* completed, the list, the cursor and hasMore are those of the first page
\* of the current filter, and every record matches the filter.
C6_FilterChangeReplacesList ==
    lastOp.name = "initialOk" =>
        LET r == getPaginatedImages(PAGE_SIZE, NoCursor, selectedCategory)
        IN  /\ images = r.images
            /\ lastVisible = r.lastVisible
            /\ hasMore = r.hasMore
            /\ selectedCategory # NullCategory =>
                 \A i \in 1..Len(images) :
                    Contains(images[i].labels, selectedCategory)

\* C6 witness: the first page of a category has just been loaded, and a
\* record that does not match the category exists remotely.
C6_Witness ==
    /\ lastOp.name = "initialOk"
    /\ selectedCategory # NullCategory
    /\ Len(images) > 0
    /\ \E d \in remote : ~Contains(d.labels, selectedCategory)

\* C7 (as claimed): the response of a fetch that was started before a
\* filter change modifies neither the list, the cursor, hasMore nor the
\* categories.
C7_StaleResponseIgnored ==
    [][(lastOp'.name \in {"initialOk", "moreOk"} /\ lastOp'.stale)
         => UNCHANGED <<images, lastVisible, hasMore, categories>>]_vars

\* C8: a handleDragEnd call with no destination, or by a caller who is not
\* an admin, issues no write and leaves the list and the remote documents
\* unchanged.
C8_RejectedDragChangesNothing ==
    [][(lastOp'.name = "handleDragEnd"
          /\ (lastOp'.drop = "outside" \/ ~isAdmin))
         => UNCHANGED <<images, writes, remote>>]_vars

\* C8 witness: a non-admin has called handleDragEnd with a destination
\* other than the source.
C8_Witness ==
    /\ lastOp.name = "handleDragEnd"
    /\ lastOp.drop = "moved"
    /\ ~isAdmin
    /\ Len(images) > 1

\* C9 (as claimed): an admin's drop on the card's own place issues no
\* remote write.
C9_SamePlaceDropWritesNothing ==
    [][(lastOp'.name = "handleDragEnd" /\ lastOp'.drop = "same" /\ isAdmin)
         => writes' = writes]_vars

\* C10: right after an admin's handleDragEnd with a destination, every
\* record of the list has its zero-based index as position.
C10_PositionsAreIndices ==
    (lastOp.name = "handleDragEnd" /\ lastOp.drop # "outside" /\ isAdmin)
        => \A i \in 1..Len(images) : images[i].position = i - 1

\* C10 witness: an admin has moved a card in a list of three.
C10_Witness ==
    /\ lastOp.name = "handleDragEnd"
    /\ lastOp.drop = "moved"
    /\ isAdmin
    /\ Len(images) = 3

\* C11: the failure of a write-back of a reorder reloads the view: the
\* step leaves the component as it is right after mounting (empty list, no
\* selection, no editing, the first-page fetch in flight) and restores no
\* record of the list; the reloaded view then takes the first page the
\* remote store returns.
C11_WriteFailureReloads ==
    [][/\ lastOp'.name = "writeFail" =>
             (Mounted' /\ writes' = {} /\ remote' = remote)
       /\ (lastOp.name = "writeFail" /\ lastOp'.name = "initialOk") =>
             images' = getPaginatedImages(PAGE_SIZE, NoCursor,
                                          NullCategory).images]_vars

\* C11 witness: a write-back has failed after another write-back of the
\* reorder had been applied remotely, and the optimistic list is gone.
C11_Witness ==
    /\ lastOp.name = "writeFail"
    /\ reorderCount > 0
    /\ \E d \in remote : d.position # 0
    /\ images = << >> /\ loading

\* The remote state and the state of the card controls that the mutating
\* operations act on.
MutableState ==
    <<remote, assets, background, writes, ops, editingImage, selectedImages,
      isSelectionMode, reorderCount, callCount>>

\* C12: while isAdmin is false no write and no call is in progress, nothing
\* is selected or edited, and no step changes the remote state or the
\* state of the card controls; the list changes only by a page fetch or a
\* reload.  isAdmin is false until the admin check has answered and
\* becomes true only by the answer of that check.
C12_MutationsNeedAdmin ==
    [][/\ ~isAdmin =>
            /\ writes = {} /\ ops = {}
            /\ selectedImages = << >> /\ ~isSelectionMode
            /\ editingImage = NoImage
            /\ UNCHANGED MutableState
            /\ \/ images' = images
               \/ lastOp'.name \in {"initialOk", "moreOk", "retry"}
       /\ adminPc = "pending" => ~isAdmin
       /\ (~isAdmin /\ isAdmin') => lastOp'.name = "checkAdmin"]_vars

\* C12 witness: the admin check has answered false and the visitor looks
\* at a full first page of cards, one of them the login background the
\* admin had set before the view was loaded again.
C12_Witness ==
    /\ ~isAdmin /\ adminPc = "done"
    /\ GridRendered /\ Len(images) = PAGE_SIZE
    /\ background # NoImage

\* Every raw string of up to MaxRawLen characters: a letter, the separator
\* and the blank.
RawStrings == UNION {[1..n -> {"a", ",", " "}] : n \in 0..MaxRawLen}

RECURSIVE JoinWith(_, _)
JoinWith(pieces, sep) ==
    IF Len(pieces) = 0 THEN << >>
    ELSE IF Len(pieces) = 1 THEN pieces[1]
    ELSE pieces[1] \o <<sep>> \o JoinWith(Tail(pieces), sep)

Blanks(n) == [i \in 1..n |-> " "]

\* trimmed is piece without the blanks at its two ends.
IsTrimOf(trimmed, piece) ==
    /\ \E i, j \in 0..Len(piece) : piece = Blanks(i) \o trimmed \o Blanks(j)
    /\ trimmed # << >> => (Head(trimmed) # " " /\ trimmed[Len(trimmed)] # " ")

\* C13: the labels handleUpdate writes are the comma-separated pieces of
\* the raw string, each without the blanks at its ends, the empty ones left
\* out, in their order and with repetitions kept ("a, b ,  , b" gives
\* a, b, b); the record written by a successful update holds exactly the
\* labels parsed from the raw string of that update.  (The facts about the
\* parsing do not depend on the state; they are evaluated in the states
\* right after mounting.)
C13_LabelsParsedAndWritten ==
    /\ lastOp.name = "mount" =>
         /\ ParseLabels(ExampleRaw) = <<"a", "b", "b">>
         /\ \A raw \in RawStrings \cup RawInputs :
              LET pieces == Split(raw, ",")
                  trimmed == TrimmedPieces(raw)
                  kept == {i \in 1..Len(trimmed) : trimmed[i] # << >>}
              IN  /\ JoinWith(pieces, ",") = raw
                  /\ \A i \in 1..Len(pieces) :
                       /\ \A k \in 1..Len(pieces[i]) : pieces[i][k] # ","
                       /\ IsTrimOf(trimmed[i], pieces[i])
                  /\ Len(trimmed) = Len(pieces)
                  /\ Len(ParseLabels(raw)) = Cardinality(kept)
                  /\ \A n \in 1..Len(ParseLabels(raw)) :
                       \E i \in kept :
                          /\ Cardinality({k \in kept : k < i}) = n - 1
                          /\ ParseLabels(raw)[n] = Text(trimmed[i])
    /\ \A o \in ops : o.kind = "update" => o.labels = ParseLabels(o.raw)
    /\ lastOp.name = "updateOk" =>
         \A d \in remote : d.id = lastOp.id =>
            /\ d.labels = ParseLabels(lastOp.call.raw)
            /\ d.description = lastOp.call.description

\* C13 witness: the update typed as "a, b ,  , b" has been written and the
\* remote record holds a, b, b.
C13_Witness ==
    /\ lastOp.name = "updateOk"
    /\ lastOp.call.raw = ExampleRaw
    /\ \E d \in remote : d.id = lastOp.id /\ d.labels = <<"a", "b", "b">>

\* C14: a failed update leaves the list and the edited record id as they
\* were and alerts the user; a successful update replaces the description
\* and the labels of exactly the record with the given id by the values
\* written, leaves every other record as it was, and closes inline editing.
C14_UpdateOutcome ==
    [][/\ lastOp'.name = "updateFail" =>
             /\ images' = images
             /\ editingImage' = editingImage
             /\ lastOp'.alert = UpdateAlert
       /\ lastOp'.name = "updateOk" =>
             /\ Len(images') = Len(images)
             /\ \A i \in 1..Len(images) :
                  IF images[i].id = lastOp'.id
                  THEN images'[i] =
                         [images[i] EXCEPT
                            !.description = lastOp'.call.description,
                            !.labels = ParseLabels(lastOp'.call.raw)]
                  ELSE images'[i] = images[i]
             /\ editingImage' = NoImage
             /\ lastOp'.alert = NoAlert]_vars

\* C14 witness: one of two loaded records has just been updated; the other
\* still has no description.
C14_Witness ==
    /\ lastOp.name = "updateOk"
    /\ Len(images) = 2
    /\ editingImage = NoImage
    /\ \E i, j \in 1..2 :
         /\ images[i].id = lastOp.id /\ images[i].description = "d"
         /\ images[j].id # lastOp.id /\ images[j].description = ""

\* C15: when a step of deleteImages (read, asset delete or document delete)
\* fails for an id of a single or bulk delete, the call ends there, the
\* user is alerted of the failure, no record leaves the list and the
\* selection is kept.
C15_FailedDeleteKeepsList ==
    [][lastOp'.name = "deleteFail" =>
         /\ images' = images
         /\ selectedImages' = selectedImages
         /\ isSelectionMode' = isSelectionMode
         /\ lastOp'.alert = IF lastOp'.call.bulk THEN BulkDeleteAlert
                            ELSE DeleteAlert
         /\ lastOp'.call \in ops /\ ops' = ops \ {lastOp'.call}]_vars

\* C15 witness: a bulk delete of two records has failed at the second id
\* after the first one was deleted remotely; both are still listed and
\* selected.
C15_Witness ==
    /\ lastOp.name = "deleteFail"
    /\ lastOp.call.bulk
    /\ Len(lastOp.call.batch) = 2 /\ Len(lastOp.call.ids) = 1
    /\ ~\E d \in remote : d.id = lastOp.call.batch[1]
    /\ \A k \in 1..2 : lastOp.call.batch[k] \in Ids(images)
    /\ selectedImages = lastOp.call.batch
    /\ isSelectionMode

\* C16: an id whose document does not exist is skipped: the step raises no
\* alert and changes neither the documents nor the assets; the call goes
\* on with the next id of the batch, or completes when the id was the last
\* one; and when a delete call completes, no id of its batch is in the
\* list any more.
C16_MissingDocumentSkipped ==
    [][/\ lastOp'.name = "deleteSkip" =>
             /\ remote' = remote /\ assets' = assets
             /\ lastOp'.alert = NoAlert
             /\ ~\E d \in remote : d.id = lastOp'.id
             /\ IF Len(lastOp'.call.ids) > 1
                THEN /\ images' = images
                     /\ \E o \in ops' : /\ o.ids = Tail(lastOp'.call.ids)
                                        /\ o.phase = "read"
                ELSE ops' = ops \ {lastOp'.call}
       /\ (lastOp'.name \in {"deleteSkip", "deleteDoc"}
             /\ Len(lastOp'.call.ids) = 1) =>
             /\ \A k \in 1..Len(lastOp'.call.batch) :
                  lastOp'.call.batch[k] \notin Ids(images')
             /\ \A i \in 1..Len(images) :
                  ~Member(lastOp'.call.batch, images[i].id) =>
                     \E j \in 1..Len(images') : images'[j] = images[i]]_vars

\* C16 witness: a single delete of a listed record whose document had
\* already been deleted has completed; the record has left the list and
\* another one is still there.
C16_Witness ==
    /\ lastOp.name = "deleteSkip"
    /\ ~lastOp.call.bulk
    /\ lastOp.id \notin Ids(images)
    /\ Len(images) > 0
    /\ ops = {}

SetOf(s) == {s[i] : i \in 1..Len(s)}

\* C17: after every selection toggle by an admin, selection mode is on
\* exactly when some id is selected: toggling an unselected id adds it and
\* selection mode is on; toggling a selected id removes it, and selection
\* mode goes off exactly when nothing is left selected.
C17_SelectionModeIffSelected ==
    [][lastOp'.toggled # NoImage =>
         LET id == lastOp'.toggled
         IN  /\ isAdmin
             /\ isSelectionMode' <=> (selectedImages' # << >>)
             /\ IF id \in SetOf(selectedImages)
                THEN SetOf(selectedImages') = SetOf(selectedImages) \ {id}
                ELSE /\ SetOf(selectedImages') = SetOf(selectedImages) \cup {id}
                     /\ isSelectionMode'
             /\ Cardinality(SetOf(selectedImages')) = Len(selectedImages')]_vars

\* C17 witness: the admin has deselected the only selected record and the
\* view is idle again.
C17_Witness ==
    /\ lastOp.name = "toggle"
    /\ isAdmin
    /\ selectedImages = << >>
    /\ ~isSelectionMode

\* C18 (as claimed): a bulk delete that the user cancels at the
\* confirmation, or that completes, leaves nothing selected and selection
\* mode off.
C18_BulkDeleteEndsIdle ==
    (\/ lastOp.name = "bulkDeleteCancel"
     \/ /\ lastOp.name \in {"deleteSkip", "deleteDoc"}
        /\ lastOp.call.bulk
        /\ Len(lastOp.call.ids) = 1)
        => (selectedImages = << >> /\ ~isSelectionMode)

IdsOf(imgs) == [i \in 1..Len(imgs) |-> imgs[i].id]

\* C19: an admin's reorder(src, dst) yields a list of the same length with
\* the same ids, in which the record formerly at src is at dst and the
\* other records keep their relative order; apart from position no field
\* of a record changes.
C19_ReorderIsPermutation ==
    [][(lastOp'.name = "handleDragEnd" /\ lastOp'.src # NoDest) =>
         LET src == lastOp'.src
             dst == lastOp'.dst
             old == IdsOf(images)
             new == IdsOf(images')
         IN  /\ isAdmin
             /\ Len(new) = Len(old)
             /\ SetOf(new) = SetOf(old)
             /\ new[dst + 1] = old[src + 1]
             /\ RemoveAt(new, dst + 1) = RemoveAt(old, src + 1)
             /\ \A j \in 1..Len(images') :
                  \E i \in 1..Len(images) :
                     images'[j] = [images[i] EXCEPT
                                      !.position = images'[j].position]]_vars

\* C19 witness: an admin has moved the first of three cards to the end.
C19_Witness ==
    /\ lastOp.name = "handleDragEnd"
    /\ lastOp.src = 0 /\ lastOp.dst = 2
    /\ Len(images) = 3
    /\ fetches = << >>

\* C20: the step of a reorder that issues the write-backs already shows
\* the reordered, renumbered list, while none of its writes has been
\* applied remotely; the answer of a write that succeeds does not touch
\* the list.
C20_ReorderIsOptimistic ==
    [][/\ (lastOp'.name = "handleDragEnd" /\ lastOp'.src # NoDest) =>
             /\ images' = Renumbered(Reordered(images, lastOp'.src,
                                               lastOp'.dst))
             /\ remote' = remote
             /\ writes' \ writes = PositionWrites(images', reorderCount)
             /\ Cardinality(writes' \ writes) = Len(images')
       /\ lastOp'.name = "writeOk" => images' = images]_vars

\* C20 witness: the dropped cards are shown in their new order while every
\* write-back is still in flight and the remote positions are untouched.
C20_Witness ==
    /\ lastOp.name = "handleDragEnd" /\ lastOp.drop = "moved"
    /\ Len(images) = 2
    /\ images[1].id < images[2].id
    /\ Cardinality(writes) = 2
    /\ \A d \in remote : d.position = 0

C22_ReorderWaitsForAll ==
    [][lastOp'.name = "writeFail" => Cardinality(writes) = 1]_vars

\* C23: a reorder writes only to records of the loaded list: the writes
\* it issues are addressed to records loaded at that moment, and a write
\* that is applied changes nothing but the position of a document some
\* write in flight is addressed to, so a document that has not been paged
\* in keeps all its fields.
C23_ReorderWritesLoadedOnly ==
    [][/\ (lastOp'.name = "handleDragEnd" /\ lastOp'.src # NoDest) =>
            \A w \in writes' \ writes : w.id \in Ids(images')
       /\ lastOp'.name = "writeOk" =>
            /\ \A d \in remote :
                 (\A w \in writes : w.id # d.id) => d \in remote'
            /\ \A d \in remote :
                 \E e \in remote' : [e EXCEPT !.position = d.position] = d
            /\ Cardinality(remote') = Cardinality(remote)]_vars

\* C23 witness: two of three records are loaded and have been reordered,
\* all writes have been applied, and the record that is not loaded has the
\* same remote position as a loaded one.
C23_Witness ==
    /\ lastOp.name = "writeOk"
    /\ writes = {}
    /\ hasMore
    /\ Len(images) = 2
    /\ \E d, e, f \in remote :
         /\ d.id \notin Ids(images)
         /\ e.id \in Ids(images)
         /\ f.id \in Ids(images)
         /\ e.position = d.position
         /\ f.position = 1

\* C24: deleteImages deals with the ids of its batch one after another,
\* and with each id in the order read, delete asset, delete document: a
\* document is removed only by the document step of the id in hand and
\* only when the asset of that id is already gone, the next id is read
\* only after the id in hand has been skipped or its document deleted, and
\* the step that fails ends the call with the later ids untouched.
C24_DeleteStepsInOrder ==
    [][LET o  == lastOp'.call
           id == lastOp'.id
       IN  /\ lastOp'.name \in {"deleteRead", "deleteSkip", "deleteAsset",
                                "deleteDoc", "deleteFail"} =>
                /\ o \in ops
                /\ id = Head(o.ids)
                /\ \E n \in 0..Len(o.batch) :
                     o.ids = SubSeq(o.batch, n + 1, Len(o.batch))
           /\ lastOp'.name = "deleteRead" =>
                /\ o.phase = "read"
                /\ ops' = (ops \ {o}) \cup {[o EXCEPT !.phase = "asset"]}
                /\ remote' = remote /\ assets' = assets
           /\ lastOp'.name = "deleteAsset" =>
                /\ o.phase = "asset"
                /\ ops' = (ops \ {o}) \cup {[o EXCEPT !.phase = "doc"]}
                /\ remote' = remote /\ assets' = assets \ {id}
           /\ lastOp'.name = "deleteDoc" =>
                /\ o.phase = "doc"
                /\ id \notin assets
                /\ remote' = {d \in remote : d.id # id}
                /\ assets' = assets
           /\ lastOp'.name = "deleteSkip" =>
                /\ o.phase = "read"
                /\ remote' = remote /\ assets' = assets
           /\ lastOp'.name \in {"deleteSkip", "deleteDoc"} =>
                ops' = IF Len(o.ids) > 1
                       THEN (ops \ {o}) \cup
                              {[o EXCEPT !.ids = Tail(o.ids), !.phase = "read"]}
                       ELSE ops \ {o}
           /\ lastOp'.name = "deleteFail" =>
                /\ ops' = ops \ {o}
                /\ remote' = remote /\ assets' = assets
           /\ \A d \in remote :
                (\A e \in remote' : e.id # d.id) =>
                   /\ lastOp'.name = "deleteDoc"
                   /\ d.id = id
                   /\ d.id \notin assets]_vars

\* C24 witness: a bulk delete of two records has failed at the document of
\* the first one, after the asset of the first one was deleted: both
\* documents and the asset of the second record are still there.
C24_Witness ==
    /\ lastOp.name = "deleteFail"
    /\ Len(lastOp.call.batch) = 2
    /\ Len(lastOp.call.ids) = 2
    /\ lastOp.call.phase = "doc"
    /\ ops = {}
    /\ lastOp.call.batch[1] \notin assets
    /\ lastOp.call.batch[2] \in assets
    /\ \A i \in 1..2 : \E d \in remote : d.id = lastOp.call.batch[i]

LabelsLoaded(imgs) == UNION {SetOf(imgs[i].labels) : i \in 1..Len(imgs)}

\* C25: as long as the filter is not changed, after every step the
\* category list holds no label twice and holds exactly the labels of the
\* records loaded so far; a load-more that succeeds keeps the categories
\* there were, in their order, and appends the new ones.
C25_CategoriesAreLoadedLabels ==
    [][/\ \A i, j \in 1..Len(categories') :
            categories'[i] = categories'[j] => i = j
       /\ SetOf(categories') = LabelsLoaded(images')
       /\ lastOp'.name = "moreOk" =>
            /\ Len(categories') >= Len(categories)
            /\ SubSeq(categories', 1, Len(categories)) = categories]_vars

\* C25 witness: the second page has just been appended; it brought a label
\* the first page did not have, and it repeats one the first page had.
C25_Witness ==
    /\ lastOp.name = "moreOk"
    /\ fetchedOnly
    /\ Len(images) = 3
    /\ categories = <<"a", "b">>
    /\ images[3].labels = <<"b", "a">>
    /\ LabelsLoaded(SubSeq(images, 1, 2)) = {"a"}

\* C26: in every reachable state the selected ids are ids of records of
\* the loaded list.
C26_SelectionIsLoaded ==
    SetOf(selectedImages) \subseteq Ids(images)

\* C27: when a delete operation has just completed, by success or by
\* failure, every record of the local list exists in the remote
\* collection.
C27_ShownRecordsExist ==
    (\/ lastOp.name = "deleteFail"
     \/ /\ lastOp.name \in {"deleteSkip", "deleteDoc"}
        /\ Len(lastOp.call.ids) = 1) =>
       \A i \in 1..Len(images) : \E d \in remote : d.id = images[i].id

\* C28: when a second reorder has started while write-backs of the first
\* were in flight, and all write-backs of both have been applied, the
\* remote position of every loaded record is its position in the list.
C28_OverlappingReordersConverge ==
    (overlapped /\ reorderCount = 2 /\ writes = {}
                /\ lastOp.name = "writeOk") =>
       \A i \in 1..Len(images) :
          \A d \in remote :
             d.id = images[i].id => d.position = images[i].position

\* C29: a load-more fetch is issued only by a step taken with hasMore true
\* and no load-more fetch outstanding (loadingMore false), so at most one
\* load-more fetch is in flight at any time; and whenever loadingMore is
\* true it is eventually false again, whether the fetch succeeds or fails.
C29_OneLoadMoreAtATime ==
    /\ [](CountMore(fetches) <= 1)
    /\ [](loadingMore \/ CountMore(fetches) = 0)
    /\ [][CountMore(fetches') > CountMore(fetches) =>
            /\ hasMore /\ ~loadingMore
            /\ CountMore(fetches) = 0
            /\ loadingMore'
            /\ lastOp'.name = "loadMore"]_vars
    /\ [][lastOp'.name \in {"moreOk", "moreFail"} => ~loadingMore']_vars
    /\ loadingMore ~> ~loadingMore

\* C29 witness: handleLoadMore has been called with hasMore true and a
\* load-more fetch outstanding, and it returned at its guard.
C29_Witness ==
    /\ lastOp.name = "loadMoreSkip"
    /\ hasMore /\ loadingMore
    /\ CountMore(fetches) = 1
    /\ Len(images) > 0

=============================================================================
